---- MODULE Spec2Model ----
(***************************************************************************)
(* A model of blockchain.py: the Blockchain class (chain, pending          *)
(* transactions, peer set, hashing, proof of work, chain validation,       *)
(* longest-chain resolution) and the Flask routes that drive it.           *)
(*                                                                         *)
(* Python values are modelled as follows.                                  *)
(*  - A list of transactions is a mutable object: `heap` maps a list       *)
(*    identity to its contents, and a block's 'transactions' field and     *)
(*    self.current_transactions hold identities. Block dicts are never     *)
(*    assigned to after construction, so a block is a record value.        *)
(*  - Text (a JSON document, a hex digest, str(n)) is a sequence of        *)
(*    naturals. sha256 is taken as collision free: the digest of a text    *)
(*    stands for the text it was computed from, and the only other thing   *)
(*    read off a digest, its leading hex characters, is a checksum of it.  *)
(*  - Addresses of senders and recipients are naturals; 0 is the sender    *)
(*    '0' of a mining reward.                                              *)
(***************************************************************************)
EXTENDS Integers, Sequences, FiniteSets, TLC

VARIABLES
    chain,                  \* self.chain: sequence of blocks
    current_transactions,   \* self.current_transactions: identity of the pool list
    nodes,                  \* self.nodes: set of network locations
    heap,                   \* list identity -> sequence of transactions
    pc,                     \* per request thread: position in its handler
    loc,                    \* per request thread: the handler's local variables
    resp,                   \* per request thread: the response of the finished handler
    submitted,              \* history: the transactions appended to a pool list, in order
    posts,                  \* history: number of transactions clients have posted
    mines,                  \* history: number of mine requests that found the pool non-empty
    receipts                \* history: the indices returned for the transactions posted
                            \* since the last mint or resolve

vars == <<chain, current_transactions, nodes, heap, pc, loc, resp, submitted, posts, mines,
          receipts>>

-----------------------------------------------------------------------------
(* Bounds of the model *)

MaxProof == 80          \* the proof search gives up (diverges) above this candidate
MaxTransactions == 2    \* transactions clients post in a run
MaxMines == 2           \* mine requests in a run that find the pool non-empty
MaxLastProof == 12      \* proofs of the blocks proof_of_work is tried on
MaxChainLen == 3        \* blocks of the chains valid_chain is tried on
NumThreads == 2         \* request threads of the server

-----------------------------------------------------------------------------
(* Text *)

RECURSIVE Str(_)
\* str(n) of a non-negative integer: its decimal digits
Str(n) == IF n < 10 THEN <<n>> ELSE Str(n \div 10) \o <<n % 10>>

RECURSIVE Flatten(_)
Flatten(seqs) == IF seqs = <<>> THEN <<>> ELSE Head(seqs) \o Flatten(Tail(seqs))

RECURSIVE Sum(_)
Sum(s) == IF s = <<>> THEN 0 ELSE Head(s) + Sum(Tail(s))

\* json.dumps(transaction, sort_keys=True): keys amount, recipient, sender
DumpTransaction(tx) == <<tx.amount, tx.recipient, tx.sender>>

\* json.dumps(block, sort_keys=True): keys index, previous_hash, proof,
\* timestamp, transactions; variable-length parts carry their length, as JSON
\* delimits them.
json_dumps(block, mem) ==
    LET txs == mem[block.transactions]
    IN  <<block.index, Len(block.previous_hash)>> \o block.previous_hash
        \o <<block.proof, block.timestamp, Len(txs)>>
        \o Flatten([i \in 1..Len(txs) |-> DumpTransaction(txs[i])])

\* hashlib.sha256(text).hexdigest(), collision free
sha256(text) == text

\* The i-th leading character of a hex digest, 0 standing for '0'
HexChar(digest, i) == (Sum(digest) \div (2 ^ (i - 1))) % 2

\* digest[:n]
HexPrefix(digest, n) == [i \in 1..n |-> HexChar(digest, i)]

LeadingZeros == 4

-----------------------------------------------------------------------------
(* Blockchain: hash, valid_proof, proof_of_work, valid_chain *)

hash(block, mem) == sha256(json_dumps(block, mem))

valid_proof(last_proof, proof, last_hash) ==
    LET guess == Str(last_proof) \o Str(proof) \o last_hash
        guess_hash == sha256(guess)
    IN  HexPrefix(guess_hash, LeadingZeros) = [i \in 1..LeadingZeros |-> 0]

RECURSIVE Search_FromOne(_, _, _)
\* the search with candidate 0 left out
Search_FromOne(last_proof, proof, last_hash) ==
    IF proof > 0 /\ valid_proof(last_proof, proof, last_hash) THEN proof
    ELSE IF proof >= MaxProof THEN -1
    ELSE Search_FromOne(last_proof, proof + 1, last_hash)

RECURSIVE Search(_, _, _)
\* the while loop of proof_of_work from candidate `proof` on; -1: no result
\* at or below MaxProof
Search(last_proof, proof, last_hash) ==
    IF valid_proof(last_proof, proof, last_hash) THEN proof
    ELSE IF proof >= MaxProof THEN -1
    ELSE Search(last_proof, proof + 1, last_hash)

\* proof_of_work with the candidate incremented once more before it is returned
proof_of_work_PastTheProof(last_block, mem) ==
    Search(last_block.proof, 0, hash(last_block, mem)) + 1

proof_of_work(last_block, mem) ==
    LET last_proof == last_block.proof
        last_hash == hash(last_block, mem)
    IN  Search(last_proof, 0, last_hash)

RECURSIVE ValidFrom(_, _, _, _)
\* the while loop of valid_chain
ValidFrom(c, last_block, current_index, mem) ==
    IF ~(current_index < Len(c)) THEN TRUE
    ELSE LET block == c[current_index + 1]
             last_block_hash == hash(last_block, mem)
         IN  IF block.previous_hash # last_block_hash THEN FALSE
             ELSE IF ~valid_proof(last_block.proof, block.proof, last_block_hash)
                  THEN FALSE
             ELSE ValidFrom(c, block, current_index + 1, mem)

RECURSIVE LinksFrom(_, _, _, _)
\* the loop of valid_chain without its check of the proof
LinksFrom(c, last_block, current_index, mem) ==
    IF ~(current_index < Len(c)) THEN TRUE
    ELSE IF c[current_index + 1].previous_hash # hash(last_block, mem) THEN FALSE
    ELSE LinksFrom(c, c[current_index + 1], current_index + 1, mem)

valid_chain_LinksOnly(c, mem) == LinksFrom(c, c[1], 1, mem)

\* chain[0] of an empty chain raises IndexError
ValidChainRaises(c) == Len(c) = 0

\* valid_chain(chain) of a non-empty chain (Python indexes from 0, TLA+ from 1)
valid_chain(c, mem) == ValidFrom(c, c[1], 1, mem)

-----------------------------------------------------------------------------
(* Values *)

Threads == 1..NumThreads

\* time(): a clock that has advanced whenever a block is built after another
\* was completed; the number of lists the node has made serves as the clock
time(mem) == Len(mem)

\* node_identifier = str(uuid4()).replace('-', ''), an address like any other
node_identifier == 9

\* The reward transaction of mine()
Reward == [sender |-> 0, recipient |-> node_identifier, amount |-> 1]

\* Transactions clients post, from senders other than the reserved '0'
ClientTransactions ==
    { [sender |-> 1, recipient |-> 2, amount |-> 5],
      [sender |-> 2, recipient |-> 1, amount |-> 3] }

\* The JSON bodies of POST /transaction/new/: the keys present and their values
Required == {"sender", "recipient", "amount"}
Bodies ==
    { [keys |-> Required, tx |-> tx] : tx \in ClientTransactions }
    \cup { [keys |-> Required \ {k}, tx |-> CHOOSE tx \in ClientTransactions : tx.amount = 5]
           : k \in Required }

\* previous_hash=1 of the genesis block: a JSON number, no digest
Sentinel == <<1>>

NoLocals == [op |-> "none"]
NoResponse == [status |-> 0]

\* self.last_block: chain[-1]
last_block == chain[Len(chain)]

Idle(t) == pc[t] = "idle"
AllIdle == \A t \in Threads : Idle(t)

-----------------------------------------------------------------------------
(* What a peer may answer to GET /chain/ *)

\* Lists of the peers' blocks, at identities 1 and 2 of the heap: parsed from
\* JSON, nothing else refers to them
PeerHeap == << <<>>, <<[sender |-> 1, recipient |-> 2, amount |-> 1],
                       [sender |-> 0, recipient |-> 8, amount |-> 1]>> >>

PeerGenesis ==
    [index |-> 1, timestamp |-> 1, transactions |-> 1, proof |-> 100,
     previous_hash |-> Sentinel]

\* A block a peer mined on top of `last`, carrying index `idx`
PeerMined(last, idx) ==
    [index |-> idx, timestamp |-> 1, transactions |-> 2,
     proof |-> proof_of_work(last, PeerHeap),
     previous_hash |-> hash(last, PeerHeap)]

PeerBlock2 == PeerMined(PeerGenesis, 2)
PeerBlock3 == PeerMined(PeerBlock2, 3)
\* a block whose links are right and whose index is not
PeerBlock2Odd == PeerMined(PeerGenesis, 5)
\* a block whose proof does not solve the puzzle
PeerBlock3Bad == [PeerBlock3 EXCEPT !.proof = PeerBlock3.proof + 1]

\* requests.get(...): raises (no connection), or a response with a status;
\* a 200 response carries 'length' and 'chain', and 'length' is whatever the
\* peer wrote
Response(status, length, c) ==
    [kind |-> "response", status |-> status, length |-> length, chain |-> c]

Fetches ==
    { [kind |-> "raise", status |-> 0, length |-> 0, chain |-> <<>>],
      Response(404, 0, <<>>),
      Response(200, 3, <<>>),
      Response(200, 1, <<PeerGenesis>>),
      Response(200, 4, <<PeerGenesis>>),
      Response(200, 2, <<PeerGenesis, PeerBlock2>>),
      Response(200, 3, <<PeerGenesis, PeerBlock2, PeerBlock3>>),
      Response(200, 2, <<PeerGenesis, PeerBlock2Odd>>),
      Response(200, 3, <<PeerGenesis, PeerBlock2, PeerBlock3Bad>>),
      \* a peer's chain without its first block
      Response(200, 2, <<PeerBlock2, PeerBlock3>>) }

-----------------------------------------------------------------------------
(* Construction *)

\* The dict new_block builds
Block(index, timestamp, transactions, proof, previous_hash) ==
    [index |-> index, timestamp |-> timestamp, transactions |-> transactions,
     proof |-> proof, previous_hash |-> previous_hash]

\* Blockchain.__init__: empty chain, pool and peer set, then
\* new_block(proof=100, previous_hash=1), which takes the pool list into the
\* genesis block and makes a new pool list
Init ==
    /\ heap = PeerHeap \o << <<>>, <<>> >>
    /\ chain = << Block(0 + 1, time(PeerHeap \o << <<>> >>), Len(PeerHeap) + 1, 100,
                        Sentinel) >>
    /\ current_transactions = Len(PeerHeap) + 2
    /\ nodes = {}
    /\ pc = [t \in Threads |-> "idle"]
    /\ loc = [t \in Threads |-> NoLocals]
    /\ resp = [t \in Threads |-> NoResponse]
    /\ submitted = <<>>
    /\ posts = 0
    /\ mines = 0
    /\ receipts = {}

\* Blockchain.__init__ before its call of new_block: the three attributes are
\* set, no request is served yet
Unconstructed ==
    /\ heap = PeerHeap \o << <<>> >>
    /\ chain = <<>>
    /\ current_transactions = Len(PeerHeap) + 1
    /\ nodes = {}
    /\ pc = [t \in Threads |-> "start"]
    /\ loc = [t \in Threads |-> NoLocals]
    /\ resp = [t \in Threads |-> NoResponse]
    /\ submitted = <<>>
    /\ posts = 0
    /\ mines = 0
    /\ receipts = {}

\* new_block(proof, previous_hash) called by __init__, then the server starts
Construct(proof, previous_hash) ==
    /\ \A t \in Threads : pc[t] = "start"
    /\ chain' = Append(chain, Block(Len(chain) + 1, time(heap), current_transactions,
                                    proof, previous_hash))
    /\ heap' = Append(heap, <<>>)
    /\ current_transactions' = Len(heap) + 1
    /\ pc' = [t \in Threads |-> "idle"]
    /\ UNCHANGED <<nodes, loc, resp, submitted, posts, mines, receipts>>

\* __init__ with the two arguments of new_block exchanged
Blockchain_init_Exchanged == Construct(1, <<100>>)

\* Blockchain.__init__: self.new_block(proof=100, previous_hash=1)
Blockchain_init == Construct(100, Sentinel)

Goto(t, label) == pc' = [pc EXCEPT ![t] = label]
SetLocals(t, r) == loc' = [loc EXCEPT ![t] = r]
\* the handler returns (or raises, which Flask turns into a 500 response)
Respond(t, r) ==
    /\ pc' = [pc EXCEPT ![t] = "done"]
    /\ resp' = [resp EXCEPT ![t] = r]

-----------------------------------------------------------------------------
(* POST /transaction/new/ and Blockchain.new_transaction *)

\* new_transaction() taking the transaction whatever keys the body has
TransactionRequest_Unchecked(t, values) ==
    /\ Idle(t)
    /\ posts < MaxTransactions
    /\ posts' = posts + 1
    /\ Goto(t, "nt_load")
    /\ SetLocals(t, [op |-> "transaction", keys |-> values.keys,
                     transaction |-> values.tx])
    /\ UNCHANGED <<chain, current_transactions, nodes, heap, resp, submitted, receipts, mines>>

\* new_transaction(): the check of the required keys
TransactionRequest(t, values) ==
    /\ Idle(t)
    /\ IF ~(Required \subseteq values.keys)
       THEN /\ Respond(t, [status |-> 400, body |-> "Missing values"])
            /\ SetLocals(t, [op |-> "transaction", keys |-> values.keys])
            /\ UNCHANGED posts
       ELSE /\ posts < MaxTransactions
            /\ posts' = posts + 1
            /\ Goto(t, "nt_load")
            /\ SetLocals(t, [op |-> "transaction", keys |-> values.keys,
                             transaction |-> values.tx])
            /\ UNCHANGED resp
    /\ UNCHANGED <<chain, current_transactions, nodes, heap, submitted, receipts, mines>>

\* self.current_transactions.append(transaction), first half: the attribute
\* is read
nt_load(t) ==
    /\ pc[t] = "nt_load"
    /\ SetLocals(t, ("ref" :> current_transactions) @@ loc[t])
    /\ Goto(t, "nt_append")
    /\ UNCHANGED <<chain, current_transactions, nodes, heap, resp, submitted, receipts, posts, mines>>

\* second half: the list that was read is appended to
nt_append(t) ==
    /\ pc[t] = "nt_append"
    /\ heap' = [heap EXCEPT ![loc[t].ref] = Append(@, loc[t].transaction)]
    /\ submitted' = Append(submitted, loc[t].transaction)
    /\ Goto(t, "nt_return")
    /\ UNCHANGED <<chain, current_transactions, nodes, loc, resp, posts, mines, receipts>>

\* return self.last_block['index'] + 1, to the route or to mine()
nt_return(t) ==
    /\ pc[t] = "nt_return"
    /\ LET index == last_block.index + 1
       IN  IF loc[t].op = "transaction"
           THEN /\ Respond(t, [status |-> 200, body |-> "Transaction will be added to Block",
                               index |-> index])
                /\ receipts' = receipts \cup {[tx |-> loc[t].transaction, index |-> index]}
           ELSE Goto(t, "mine_hash") /\ UNCHANGED <<resp, receipts>>
    /\ UNCHANGED <<chain, current_transactions, nodes, heap, loc, submitted, posts, mines>>

-----------------------------------------------------------------------------
(* GET /mine/ and Blockchain.new_block *)

\* mine(): the check of the pool
MineRequest(t) ==
    /\ Idle(t)
    /\ IF heap[current_transactions] = <<>>
       THEN /\ Respond(t, [status |-> 200, body |-> "No transaction"])
            /\ SetLocals(t, [op |-> "mine"])
            /\ UNCHANGED mines
       ELSE /\ mines < MaxMines
            /\ mines' = mines + 1
            /\ Goto(t, "mine_last")
            /\ SetLocals(t, [op |-> "mine"])
            /\ UNCHANGED resp
    /\ UNCHANGED <<chain, current_transactions, nodes, heap, submitted, receipts, posts>>

\* last_block = blockchain.last_block
mine_last(t) ==
    /\ pc[t] = "mine_last"
    /\ SetLocals(t, ("last_block" :> last_block) @@ loc[t])
    /\ Goto(t, "mine_pow")
    /\ UNCHANGED <<chain, current_transactions, nodes, heap, resp, submitted, receipts, posts, mines>>

\* proof = blockchain.proof_of_work(last_block); the search returns only
\* when it finds a proof. Then the reward is handed to new_transaction.
mine_pow(t) ==
    /\ pc[t] = "mine_pow"
    /\ LET proof == proof_of_work(loc[t].last_block, heap)
       IN  /\ proof # -1
           /\ SetLocals(t, ("proof" :> proof) @@ ("transaction" :> Reward) @@ loc[t])
    /\ Goto(t, "nt_load")
    /\ UNCHANGED <<chain, current_transactions, nodes, heap, resp, submitted, receipts, posts, mines>>

\* previous_hash = blockchain.hash(last_block)
mine_hash(t) ==
    /\ pc[t] = "mine_hash"
    /\ SetLocals(t, ("previous_hash" :> hash(loc[t].last_block, heap)) @@ loc[t])
    /\ Goto(t, "nb_build")
    /\ UNCHANGED <<chain, current_transactions, nodes, heap, resp, submitted, receipts, posts, mines>>

\* new_block: block = {...}
nb_build(t) ==
    /\ pc[t] = "nb_build"
    /\ SetLocals(t, ("block" :> Block(Len(chain) + 1, time(heap), current_transactions,
                                      loc[t].proof, loc[t].previous_hash))
                    @@ loc[t])
    /\ Goto(t, "nb_reset")
    /\ UNCHANGED <<chain, current_transactions, nodes, heap, resp, submitted, receipts, posts, mines>>

\* new_block emptying the pool list in place instead of making a new one
nb_reset_InPlace(t) ==
    /\ pc[t] = "nb_reset"
    /\ heap' = [heap EXCEPT ![current_transactions] = <<>>]
    /\ Goto(t, "nb_append")
    /\ UNCHANGED <<chain, current_transactions, nodes, loc, resp, submitted, receipts, posts, mines>>

\* new_block: self.current_transactions = []
nb_reset(t) ==
    /\ pc[t] = "nb_reset"
    /\ heap' = Append(heap, <<>>)
    /\ current_transactions' = Len(heap) + 1
    /\ Goto(t, "nb_append")
    /\ UNCHANGED <<chain, nodes, loc, resp, submitted, receipts, posts, mines>>

\* new_block: self.chain.append(block), and mine()'s response
nb_append(t) ==
    /\ pc[t] = "nb_append"
    /\ chain' = Append(chain, loc[t].block)
    /\ Respond(t, [status |-> 200, body |-> "New Block forged", block |-> loc[t].block])
    /\ receipts' = {}
    /\ UNCHANGED <<current_transactions, nodes, heap, loc, submitted, posts, mines>>

-----------------------------------------------------------------------------------------------------------------------------------------------------
(* GET /nodes/resolve/ and Blockchain.resolve_conflicts *)

\* new_chain = None; None and the empty list are the falsy values of new_chain
None == <<>>

\* The orders in which `for node in self.nodes` may visit the set
Orders(S) ==
    { o \in [1..Cardinality(S) -> S] : \A i, j \in DOMAIN o : o[i] = o[j] => i = j }

\* The body of the loop for one node: r holds max_length, new_chain and the
\* exception raised, if any ("" for none)
Iteration(r, response, mem) ==
    IF response.kind = "raise"
    THEN [r EXCEPT !.raised = "ConnectionError"]
    ELSE IF response.status = 200
    THEN LET length == response.length
             c == response.chain
         IN  IF length > r.max_length
             THEN IF ValidChainRaises(c)
                  THEN [r EXCEPT !.raised = "IndexError"]
                  ELSE IF valid_chain(c, mem)
                  THEN [r EXCEPT !.new_chain = c, !.max_length = length]
                  ELSE r
             ELSE r
    ELSE r

RECURSIVE Scan(_, _, _, _)
\* The loop over the nodes in `order`, net[node] being what the fetch from
\* node gives; an exception ends it
Scan(order, net, r, mem) ==
    IF order = <<>> \/ r.raised # "" THEN r
    ELSE Scan(Tail(order), net, Iteration(r, net[Head(order)], mem), mem)

\* resolve_conflicts taking the chain of the first answer it accepts and
\* returning False all the same
resolve_conflicts_SilentSwap(order, net, c, mem) ==
    LET r == Scan(order, net, [max_length |-> Len(c), new_chain |-> None, raised |-> ""],
                  mem)
    IN  IF r.raised # "" THEN [chain |-> c, returned |-> FALSE, raised |-> r.raised]
        ELSE IF r.new_chain # <<>>
        THEN [chain |-> r.new_chain, returned |-> FALSE, raised |-> ""]
        ELSE [chain |-> c, returned |-> FALSE, raised |-> ""]

\* resolve_conflicts on chain c: the chain afterwards, the value returned and
\* the exception raised
resolve_conflicts(order, net, c, mem) ==
    LET r == Scan(order, net, [max_length |-> Len(c), new_chain |-> None, raised |-> ""],
                  mem)
    IN  IF r.raised # "" THEN [chain |-> c, returned |-> FALSE, raised |-> r.raised]
        ELSE IF r.new_chain # <<>>
        THEN [chain |-> r.new_chain, returned |-> TRUE, raised |-> ""]
        ELSE [chain |-> c, returned |-> FALSE, raised |-> ""]

\* consensus(): the handler of GET /nodes/resolve/
consensus(t, order, net) ==
    /\ Idle(t)
    /\ LET r == resolve_conflicts(order, net, chain, heap)
       IN  /\ chain' = r.chain
           /\ SetLocals(t, [op |-> "resolve", order |-> order, net |-> net])
           /\ Respond(t, IF r.raised # ""
                         THEN [status |-> 500, body |-> r.raised]
                         ELSE IF r.returned
                         THEN [status |-> 200, body |-> "Our chain was replaced",
                               chain |-> r.chain]
                         ELSE [status |-> 200, body |-> "Our chain is authoritative",
                               chain |-> r.chain])
    /\ receipts' = {}
    /\ UNCHANGED <<current_transactions, nodes, heap, submitted, posts, mines>>

-----
(* POST /nodes/register/ and Blockchain.register_node *)

\* urlparse(address) of the addresses clients send: netloc and path
urlparse(address) ==
    CASE address = "http://a"  -> [netloc |-> "a", path |-> ""]
      [] address = "http://b/" -> [netloc |-> "b", path |-> "/"]
      [] address = "a"         -> [netloc |-> "", path |-> "a"]
      [] address = ""          -> [netloc |-> "", path |-> ""]

Addresses == {"http://a", "http://b/", "a", ""}

\* The 'nodes' values of the JSON bodies; <<>> also stands for a missing key
\* (values.get('nodes') is None), which `not nodes` treats alike
NodeLists ==
    {<<>>} \cup { <<x>> : x \in Addresses } \cup { <<x, y>> : x, y \in Addresses }

RECURSIVE RegisterLoop(_, _)
\* `for node in nodes: blockchain.register_node(node)` from peer set ns on:
\* the peer set, and whether register_node raised ValueError
RegisterLoop(ns, list) ==
    IF list = <<>> THEN [nodes |-> ns, raised |-> FALSE]
    ELSE LET parsed_url == urlparse(Head(list))
         IN  IF parsed_url.netloc # ""
             THEN RegisterLoop(ns \cup {parsed_url.netloc}, Tail(list))
             ELSE IF parsed_url.path # ""
             THEN RegisterLoop(ns \cup {parsed_url.path}, Tail(list))
             ELSE [nodes |-> ns, raised |-> TRUE]

register_nodes(t, list) ==
    /\ Idle(t)
    /\ SetLocals(t, [op |-> "register", nodes |-> list])
    /\ IF list = <<>>
       THEN /\ Respond(t, [status |-> 400,
                           body |-> "Error: Please supply a valid list of nodes"])
            /\ UNCHANGED nodes
       ELSE LET r == RegisterLoop(nodes, list)
            IN  /\ nodes' = r.nodes
                /\ IF r.raised
                   THEN Respond(t, [status |-> 500, body |-> "ValueError"])
                   ELSE Respond(t, [status |-> 201, body |-> "New nodes have been added",
                                    total_nodes |-> r.nodes])
    /\ UNCHANGED <<chain, current_transactions, heap, submitted, receipts, posts, mines>>

-----------------------------------------------------------------------------
(* The server *)

\* The response is sent and the thread takes the next request
Finish(t) ==
    /\ pc[t] = "done"
    /\ pc' = [pc EXCEPT ![t] = "idle"]
    /\ loc' = [loc EXCEPT ![t] = NoLocals]
    /\ resp' = [resp EXCEPT ![t] = NoResponse]
    /\ UNCHANGED <<chain, current_transactions, nodes, heap, submitted, receipts, posts, mines>>

\* The steps of the handlers of the ledger
LedgerStep(t) ==
    \/ nt_load(t) \/ nt_append(t) \/ nt_return(t)
    \/ mine_last(t) \/ mine_pow(t) \/ mine_hash(t)
    \/ nb_build(t) \/ nb_reset(t) \/ nb_append(t)
    \/ Finish(t)

LedgerRequest(t) ==
    \/ \E values \in Bodies : TransactionRequest(t, values)
    \/ MineRequest(t)

\* Requests handled one at a time: transactions, mining, registration, resolution
Next ==
    \E t \in Threads :
        \/ AllIdle /\ LedgerRequest(t)
        \/ AllIdle /\ \E order \in Orders(nodes), net \in [nodes -> Fetches] :
                        consensus(t, order, net)
        \/ AllIdle /\ \E list \in NodeLists : register_nodes(t, list)
        \/ LedgerStep(t)

Spec == Init /\ [][Next]_vars

\* Requests handled one at a time: transactions and mining only
NextLedger ==
    \E t \in Threads :
        \/ AllIdle /\ LedgerRequest(t)
        \/ LedgerStep(t)

SpecLedger == Init /\ [][NextLedger]_vars

\* Construction, then transactions and mining one request at a time
NextFresh ==
    \/ Blockchain_init
    \/ NextLedger

SpecFresh == Unconstructed /\ [][NextFresh]_vars

\* What a call of valid_chain gives
ValidChainResult(c, mem) ==
    IF ValidChainRaises(c) THEN "IndexError"
    ELSE IF valid_chain(c, mem) THEN "True" ELSE "False"

\* Chain c with `field` of its i-th block set to v
Tampered(c, i, field, v) == [c EXCEPT ![i] = [@ EXCEPT ![field] = v]]

\* The values a block's proof or previous_hash is replaced by
FieldValues(field) ==
    IF field = "proof" THEN 0..MaxProof
    ELSE {Sentinel} \cup { hash(chain[j], heap) : j \in 1..Len(chain) }

\* valid_chain called on a copy of the ledger's three-block chain in which one
\* field of one block was replaced by another value
TamperCall(t, i, field, v) ==
    /\ Idle(t)
    /\ Len(chain) = 3
    /\ ValidChainResult(chain, heap) = "True"
    /\ v # chain[i][field]
    /\ SetLocals(t, [op |-> "valid_chain", i |-> i, field |-> field, value |-> v])
    /\ Respond(t, [status |-> 0,
                   body |-> ValidChainResult(Tampered(chain, i, field, v), heap)])
    /\ UNCHANGED <<chain, current_transactions, nodes, heap, submitted, receipts, posts, mines>>

\* Blocks proof_of_work is called on
SolveInputs ==
    [index : 1..2, timestamp : 1..2, transactions : 1..Len(PeerHeap),
     proof : 0..MaxLastProof,
     previous_hash : {Sentinel, hash(PeerGenesis, PeerHeap)}]

\* proof_of_work called on a block
SolveCall(t, block) ==
    /\ Idle(t)
    /\ SetLocals(t, [op |-> "proof_of_work", last_block |-> block])
    /\ Respond(t, [status |-> 0, body |-> "proof", proof |-> proof_of_work(block, heap)])
    /\ UNCHANGED <<chain, current_transactions, nodes, heap, submitted, receipts, posts, mines>>

\* The ledger's requests one at a time, and calls of valid_chain on tampered
\* copies of its chain
NextValidate ==
    \/ NextLedger
    \/ \E t \in Threads :
         AllIdle /\ \E i \in 1..3, field \in {"proof", "previous_hash"} :
                      \E v \in FieldValues(field) : TamperCall(t, i, field, v)

SpecValidate == Init /\ [][NextValidate]_vars

\* Calls of proof_of_work, one at a time
NextSolve ==
    \E t \in Threads :
        \/ AllIdle /\ \E block \in SolveInputs : SolveCall(t, block)
        \/ Finish(t)

SpecSolve == Init /\ [][NextSolve]_vars

\* Blocks of the chains valid_chain is called on: linked and solved, with a
\* wrong index, with a wrong proof, with a wrong previous_hash
BlockInputs ==
    { PeerGenesis, PeerBlock2, PeerBlock3, PeerBlock2Odd, PeerBlock3Bad,
      [PeerBlock2 EXCEPT !.previous_hash = Sentinel] }

\* The chains valid_chain is called on, the empty one among them
ChainInputs ==
    UNION { [1..n -> BlockInputs] : n \in 0..MaxChainLen }

\* valid_chain called on a chain
ValidateCall(t, c) ==
    /\ Idle(t)
    /\ SetLocals(t, [op |-> "validate", chain |-> c])
    /\ Respond(t, [status |-> 0, body |-> ValidChainResult(c, heap)])
    /\ UNCHANGED <<chain, current_transactions, nodes, heap, submitted, receipts, posts, mines>>

\* Calls of valid_chain, one at a time
NextChains ==
    \E t \in Threads :
        \/ AllIdle /\ \E c \in ChainInputs : ValidateCall(t, c)
        \/ Finish(t)

SpecChains == Init /\ [][NextChains]_vars

\* Transactions and mining on concurrent threads, the steps interleaved
NextConcurrent ==
    \E t \in Threads :
        \/ LedgerRequest(t)
        \/ LedgerStep(t)

SpecConcurrent == Init /\ [][NextConcurrent]_vars

-----------------------------------------------------------------------------
(* Properties *)

\* The contents of a block's 'transactions'
TransactionsOf(block) == heap[block.transactions]

\* The transactions of the blocks of the chain, in chain order
Committed == Flatten([i \in 1..Len(chain) |-> TransactionsOf(chain[i])])

\* No request is part way through its handler
Quiescent == \A t \in Threads : pc[t] \in {"idle", "done"}

\* C1: after initialization and any sequence of transaction and mine requests
\* handled one after the other, the chain passes valid_chain: every block after
\* the first records the hash of its predecessor and carries a proof that
\* valid_proof accepts for the predecessor's proof and hash.
C1_ChainValid ==
    /\ valid_chain(chain, heap)
    /\ \A i \in 2..Len(chain) :
         LET digest == hash(chain[i - 1], heap)
         IN  /\ chain[i].previous_hash = digest
             /\ valid_proof(chain[i - 1].proof, chain[i].proof, digest)

\* two blocks have been mined, the second on top of the first
C1_Witness == Quiescent /\ Len(chain) = 3 /\ TransactionsOf(chain[2]) # <<>>

\* Thread t handles GET /nodes/resolve/ in this step
ResolveBy(t) == Idle(t) /\ pc'[t] = "done" /\ loc'[t].op = "resolve"

\* The response says that resolve_conflicts returned True, or False
ReturnedTrue(r) == r.status = 200 /\ r.body = "Our chain was replaced"
ReturnedFalse(r) == r.status = 200 /\ r.body = "Our chain is authoritative"

\* The peer answers, with success, a chain that passes valid_chain and has more
\* blocks than the local chain
Offers(response) ==
    /\ response.kind = "response"
    /\ response.status = 200
    /\ ~ValidChainRaises(response.chain)
    /\ valid_chain(response.chain, heap)
    /\ Len(response.chain) > Len(chain)

\* C2: resolve returns true and replaces the chain if and only if some
\* reachable peer offers a chain that passes validation and is strictly longer
\* than the local chain; when no peer does, it returns false and the chain is
\* unchanged.
C2_ReplacedIffOffered ==
    [][\A t \in Threads : ResolveBy(t) =>
         LET net == loc'[t].net
             offering == { n \in nodes : Offers(net[n]) }
         IN  /\ ReturnedTrue(resp'[t]) <=> offering # {}
             /\ ReturnedTrue(resp'[t]) => \E n \in offering : chain' = net[n].chain
             /\ offering = {} => ReturnedFalse(resp'[t]) /\ chain' = chain]_vars

\* C3: a peer whose fetch fails or answers a non-success status is skipped:
\* the failure never becomes an error of resolve, and with two registered
\* peers, one unreachable and the other offering a valid strictly longer chain,
\* resolve adopts that chain and returns true.
C3_FailedPeerSkipped ==
    [][\A t \in Threads : ResolveBy(t) =>
         LET net == loc'[t].net
         IN  /\ resp'[t].body # "ConnectionError"
             /\ \A a, b \in nodes :
                  (nodes = {a, b} /\ a # b /\ net[a].kind = "raise" /\ Offers(net[b]))
                  => ReturnedTrue(resp'[t]) /\ chain' = net[b].chain]_vars

\* The pool list
Pool == heap[current_transactions]

\* The number of times x occurs in sequence q
Count(x, q) == Cardinality({ i \in DOMAIN q : q[i] = x })

\* Thread t's mine request has appended its block and responds
Forged(t) == pc[t] = "done" /\ loc[t].op = "mine" /\ resp[t].body = "New Block forged"

\* C4: new_block puts the whole pool, in submission order, into the new block
\* and leaves the pool empty, and a transaction submitted afterwards goes to
\* the pool and not into a block of the chain: between requests the blocks'
\* transactions followed by the pool are the transactions in the order they
\* were submitted, the pool is empty when a block has just been minted, and no
\* step changes the transactions of a block that is in the chain.
C4_PoolDrainedInOrder ==
    /\ [](Quiescent => Committed \o Pool = submitted)
    /\ [](\A t \in Threads : Forged(t) => Pool = <<>>)
    /\ [][\A i \in 1..Len(chain) :
            /\ i <= Len(chain') /\ chain'[i] = chain[i]
            /\ heap'[chain[i].transactions] = heap[chain[i].transactions]]_vars

\* two different transactions were submitted and minted into one block, in
\* the order of their submission, with the reward after them
C4_Witness ==
    /\ \E t \in Threads : Forged(t)
    /\ Len(submitted) = 3
    /\ submitted[1] # submitted[2]
    /\ TransactionsOf(chain[Len(chain)]) = submitted

\* C5: for every interleaving of concurrent transaction and mine requests no
\* transaction is lost or duplicated: every submitted transaction is in the
\* pool or in exactly one block of the chain (stated here for the states in
\* which no request is part way through its handler).
C5_NoLossNoDuplication ==
    Quiescent =>
        \A tx \in ClientTransactions \cup {Reward} :
            Count(tx, submitted) = Count(tx, Pool) + Count(tx, Committed)

\* C7: mining with an empty pool is a no-op (no block, no reward, chain and
\* pool unchanged), and so every block a mine request appends holds at least
\* one transaction that is no reward.
C7_EmptyPoolNoOp ==
    [][\A t \in Threads :
         /\ (Idle(t) /\ loc'[t].op = "mine" /\ Pool = <<>>)
            => /\ pc'[t] = "done"
               /\ resp'[t] = [status |-> 200, body |-> "No transaction"]
               /\ UNCHANGED <<chain, heap, current_transactions, nodes, submitted>>
         /\ (pc[t] = "nb_append" /\ pc'[t] = "done")
            => LET txs == heap'[chain'[Len(chain')].transactions]
               IN  /\ chain' = Append(chain, loc[t].block)
                   /\ \E i \in 1..Len(txs) : txs[i] # Reward]_vars

\* a mine request found the pool empty and was refused
C7_Witness ==
    \E t \in Threads :
        /\ pc[t] = "done" /\ loc[t].op = "mine" /\ resp[t].body = "No transaction"
        /\ Len(chain) = 2

\* C10: in every reachable state, also after resolve adopted a peer's chain,
\* block indices are consecutive.
C10_ConsecutiveIndices ==
    \A i \in 2..Len(chain) : chain[i].index = chain[i - 1].index + 1

\* Thread t has called valid_chain on a tampered copy of the chain
TamperedBy(t) == pc[t] = "done" /\ loc[t].op = "valid_chain"

\* C6: for every valid 3-block chain, replacing the proof or the
\* previous_hash of any single block by a different value makes valid_chain
\* return false.
C6_EveryTamperDetected ==
    \A t \in Threads : TamperedBy(t) => resp[t].body = "False"

\* C6, restricted: replacing the previous_hash of any block, or the proof of the
\* first or the second block, by a different value makes valid_chain return
\* false; replacing the proof of the last block makes it return false exactly
\* when the new value is no valid proof for the second block's proof and hash.
C6_TamperDetected ==
    \A t \in Threads : TamperedBy(t) =>
        LET escapes == /\ loc[t].field = "proof"
                       /\ loc[t].i = 3
                       /\ valid_proof(chain[2].proof, loc[t].value, hash(chain[2], heap))
        IN  resp[t].body = (IF escapes THEN "True" ELSE "False")

\* the proof of the last block was replaced by a value that is no valid proof
C6_Witness ==
    \E t \in Threads :
        /\ TamperedBy(t) /\ loc[t].field = "proof" /\ loc[t].i = 3
        /\ resp[t].body = "False"

\* C9: proof_of_work returns the least non-negative proof that valid_proof
\* accepts for the last block's proof and hash, whenever there is one (at or
\* below MaxProof, where the model's search ends).
C9_LeastProof ==
    \A t \in Threads : (pc[t] = "done" /\ loc[t].op = "proof_of_work") =>
        LET p == loc[t].last_block.proof
            h == hash(loc[t].last_block, heap)
            s == resp[t].proof
            solutions == { k \in 0..MaxProof : valid_proof(p, k, h) }
        IN  IF solutions = {} THEN s = -1
            ELSE /\ s \in solutions
                 /\ \A k \in 0..(s - 1) : ~valid_proof(p, k, h)

\* proof_of_work returned a proof after rejecting ten candidates or more
C9_Witness ==
    \E t \in Threads :
        /\ pc[t] = "done" /\ loc[t].op = "proof_of_work"
        /\ resp[t].proof > 9

\* C8: the block a mine request mints carries the proof found for the last
\* block L it read and L's hash as previous_hash, and its transactions are the
\* pool's, with exactly one reward among them.
C8_MineOrder ==
    \A t \in Threads : Forged(t) =>
        LET L == loc[t].last_block
            block == resp[t].block
        IN  /\ block.proof = proof_of_work(L, heap)
            /\ block.previous_hash = hash(L, heap)
            /\ Count(Reward, TransactionsOf(block)) = 1
            /\ \E i \in 1..Len(chain) : chain[i] = block

\* C11: in every reachable state (after any sequence of transaction, mine,
\* register and resolve requests) the chain is non-empty and its first block is
\* the genesis block: index 1, proof 100, the sentinel previous_hash.
C11_GenesisFirst ==
    /\ Len(chain) >= 1
    /\ chain[1].index = 1
    /\ chain[1].proof = 100
    /\ chain[1].previous_hash = Sentinel

\* C12: a freshly initialized ledger has a chain of exactly one block, with
\* index 1 and proof 100, an empty pool and an empty peer set.
C12_FreshLedger ==
    [][(\A t \in Threads : pc[t] = "start") =>
         /\ Len(chain') = 1
         /\ chain'[1].index = 1
         /\ chain'[1].proof = 100
         /\ heap'[current_transactions'] = <<>>
         /\ nodes' = {}]_vars

\* the ledger was constructed and has served no request that changed it
C12_Witness ==
    /\ AllIdle
    /\ Len(chain) = 1 /\ chain[1].proof = 100
    /\ submitted = <<>> /\ Pool = <<>> /\ nodes = {}

\* Thread t handles POST /nodes/register/ in this step
RegisterBy(t) == Idle(t) /\ pc'[t] = "done" /\ loc'[t].op = "register"

\* register_node finds nothing to add in the address
Unparseable(address) ==
    urlparse(address).netloc = "" /\ urlparse(address).path = ""

\* C13: a registration batch that holds an unparseable address is aborted as a
\* whole with an error: the peer set afterwards is what it was before the
\* request, also for the valid addresses listed before the invalid one.
C13_BatchAborted ==
    [][\A t \in Threads :
         (RegisterBy(t) /\ \E i \in DOMAIN loc'[t].nodes : Unparseable(loc'[t].nodes[i]))
         => /\ resp'[t].status >= 400
            /\ nodes' = nodes]_vars

\* C14: a transaction submission that lacks one of sender, recipient and
\* amount is rejected with a client error and changes no core state: pool,
\* chain and peer set are what they were.
C14_MissingFieldRejected ==
    [][\A t \in Threads :
         (Idle(t) /\ loc'[t].op = "transaction" /\ ~(Required \subseteq loc'[t].keys))
         => /\ pc'[t] = "done"
            /\ resp'[t].status = 400
            /\ UNCHANGED <<chain, heap, current_transactions, nodes, submitted>>]_vars

\* a submission without one of the keys was rejected while a transaction was
\* pending and a peer registered
C14_Witness ==
    \E t \in Threads :
        /\ pc[t] = "done" /\ loc[t].op = "transaction"
        /\ ~(Required \subseteq loc[t].keys)
        /\ resp[t].body = "Missing values"
        /\ Pool # <<>> /\ nodes # {}

\* C15: the index new_transaction returns is the index of the block the
\* transaction lands in: when no resolve came between the submission and the
\* next mint, the block that mint appends has the returned index and holds the
\* transaction (also when the chain was adopted from a peer before).
C15_ReturnedIndex ==
    [][\A t \in Threads : (pc[t] = "nb_append" /\ pc'[t] = "done") =>
         LET block == chain'[Len(chain')]
             txs == heap'[block.transactions]
         IN  \A r \in receipts :
                 /\ r.index = block.index
                 /\ \E i \in DOMAIN txs : txs[i] = r.tx]_vars

\* C16: under every interleaving of the steps of concurrent mine requests,
\* every block after the first records the hash of the block before it.
C16_HashLinked ==
    \A i \in 2..Len(chain) : chain[i].previous_hash = hash(chain[i - 1], heap)

\* The peer answers, with success, a chain that passes valid_chain
OffersValid(response) ==
    /\ response.kind = "response"
    /\ response.status = 200
    /\ ~ValidChainRaises(response.chain)
    /\ valid_chain(response.chain, heap)

\* C17: resolve adopts the longest chain it met and never shortens the chain:
\* when it returns true the chain has strictly more blocks than before, no
\* reachable peer offered a valid chain with more blocks than the adopted one,
\* and every scan order of the peers gives a chain of that many blocks.
C17_LongestAdopted ==
    [][\A t \in Threads : (ResolveBy(t) /\ ReturnedTrue(resp'[t])) =>
         LET net == loc'[t].net
         IN  /\ Len(chain') > Len(chain)
             /\ \A n \in nodes :
                  OffersValid(net[n]) => Len(net[n].chain) <= Len(chain')
             /\ \A o \in Orders(nodes) :
                  Len(resolve_conflicts(o, net, chain, heap).chain) = Len(chain')]_vars

\* Every adjacent pair of c passes both checks of valid_chain
PairsPass(c) ==
    \A i \in 2..Len(c) :
        /\ c[i].previous_hash = hash(c[i - 1], heap)
        /\ valid_proof(c[i - 1].proof, c[i].proof, hash(c[i - 1], heap))

\* C18: valid_chain returns true exactly when every adjacent pair passes both
\* checks, for every chain up to MaxChainLen blocks; so it returns true, with
\* no error, for the chains of length 0 and 1; and it changes no ledger state.
C18_ValidateExact ==
    [][\A t \in Threads : (Idle(t) /\ loc'[t].op = "validate") =>
         /\ resp'[t].body = (IF PairsPass(loc'[t].chain) THEN "True" ELSE "False")
         /\ UNCHANGED <<chain, heap, current_transactions, nodes>>]_vars

\* C19: outside resolve the chain is append-only: under every interleaving of
\* concurrent transaction and mine requests, a step leaves every block that is
\* in the chain as it was, its transactions included, and the chain before the
\* step is a prefix of the chain after it.
C19_AppendOnly ==
    [][/\ Len(chain') >= Len(chain)
       /\ \A i \in 1..Len(chain) :
            /\ chain'[i] = chain[i]
            /\ TransactionsOf(chain[i])' = TransactionsOf(chain[i])]_vars

\* C20: resolve changes nothing but the chain: the pool and the peer set are
\* what they were before the call whether or not the chain was replaced, and
\* when resolve returns false the chain is what it was as well.
C20_ResolveFrame ==
    [][\A t \in Threads : ResolveBy(t) =>
         /\ current_transactions' = current_transactions
         /\ Pool' = Pool
         /\ nodes' = nodes
         /\ ReturnedFalse(resp'[t]) => chain' = chain]_vars

\* resolve replaced the chain while transactions were pending
C20_Witness ==
    \E t \in Threads :
        /\ pc[t] = "done" /\ loc[t].op = "resolve"
        /\ ReturnedTrue(resp[t])
        /\ Pool # <<>> /\ nodes # {}

====
